---- MODULE Spec2Model ----
(***************************************************************************)
(* Model of scripts/pipeline.py: the screenplay dialogue pipeline.         *)
(*                                                                         *)
(* A Python str is a sequence of one-character strings (Chars("AB") =      *)
(* <<"A","B">>).  The characters the code names outside ASCII letters are  *)
(* the atoms RQUOTE (U+2019), OTILDE (U+00D5), LOTILDE (U+00F5), BACKTICK  *)
(* (U+0060) and APOS (U+0027).  Python's None is the empty sequence        *)
(* wherever the code only tests truthiness (current_speaker, tag1, tag2,   *)
(* the classifier's result) and the string "None" for the mode.  A float   *)
(* is a record [mant, exp] of value mant * 2^exp, mant a little-endian     *)
(* bit sequence of at most 53 bits.                                        *)
(***************************************************************************)
EXTENDS Integers, Sequences, FiniteSets, TLC

\* ---------------------------------------------------------------- bounds
MaxLines == 4
MaxNameFill == 42
MaxPieces == 3
MaxBlocks == 2
MaxTextLen == 5
MaxChars == 3

VARIABLES
    pc,
    \* extract_dialogue_blocks
    lines, i, current_speaker, current_mode, buf, results,
    \* history of extract_dialogue_blocks (not program state): the header line
    \* that opened the current block, the header line of each emitted block,
    \* the line indexes appended to buf, the line indexes the loop body has read
    origin, origins, buffered, examined,
    \* looks_like_speaker_header
    line, header,
    \* mode_from_tags
    tag1, tag2, mode,
    \* main: the speaker filter and the persistence loop
    dialogue, debra_dialogue, requests,
    \* debra_stats
    total_words, swear_buckets, total_swear_words, swear_pct,
    \* chunk_text
    text, max_chars, paras, chunks, cbuf

segVars == <<lines, i, current_speaker, current_mode, buf, results,
             origin, origins, buffered, examined>>
hdrVars == <<line, header>>
modeVars == <<tag1, tag2, mode>>
mainVars == <<dialogue, debra_dialogue, requests>>
statVars == <<total_words, swear_buckets, total_swear_words, swear_pct>>
chunkVars == <<text, max_chars, paras, chunks, cbuf>>
vars == <<pc, segVars, hdrVars, modeVars, mainVars, statVars, chunkVars>>

\* ------------------------------------------------------------ Python str
Chars(str) == [j \in 1..Len(str) |-> SubSeq(str, j, j)]

None == <<>>
\* the float 0.0 (see the float section)
FloatZero == [mant |-> <<>>, exp |-> 0]
RQUOTE == "rsquo"
OTILDE == "Otilde"
LOTILDE == "otilde"
APOS == "'"
BACKTICK == "backtick"

LowerLetters == Chars("abcdefghijklmnopqrstuvwxyz") \o <<LOTILDE>>
UpperLetters == Chars("ABCDEFGHIJKLMNOPQRSTUVWXYZ") \o <<OTILDE>>
AsciiUpper == {UpperLetters[j] : j \in 1..26}
AsciiLower == {LowerLetters[j] : j \in 1..26}
Digits == {"0", "1", "2", "3", "4", "5", "6", "7", "8", "9"}
WhiteSpace == {" ", "\t", "\n", "\r", "\f"}

Min(a, b) == IF a < b THEN a ELSE b
Max(a, b) == IF a > b THEN a ELSE b

upper_char(c) ==
    IF \E j \in 1..Len(LowerLetters) : LowerLetters[j] = c
    THEN UpperLetters[CHOOSE j \in 1..Len(LowerLetters) : LowerLetters[j] = c]
    ELSE c

lower_char(c) ==
    IF \E j \in 1..Len(UpperLetters) : UpperLetters[j] = c
    THEN LowerLetters[CHOOSE j \in 1..Len(UpperLetters) : UpperLetters[j] = c]
    ELSE c

upper(s) == [j \in 1..Len(s) |-> upper_char(s[j])]
lower(s) == [j \in 1..Len(s) |-> lower_char(s[j])]

IsSpace(s) == \A j \in 1..Len(s) : s[j] \in WhiteSpace

rstrip(s) ==
    IF IsSpace(s) THEN <<>>
    ELSE SubSeq(s, 1, CHOOSE j \in 1..Len(s) :
                        /\ s[j] \notin WhiteSpace
                        /\ \A m \in (j + 1)..Len(s) : s[m] \in WhiteSpace)

lstrip(s) ==
    IF IsSpace(s) THEN <<>>
    ELSE SubSeq(s, CHOOSE j \in 1..Len(s) :
                     /\ s[j] \notin WhiteSpace
                     /\ \A m \in 1..(j - 1) : s[m] \in WhiteSpace, Len(s))

strip(s) == lstrip(rstrip(s))

startswith(s, p) == Len(p) <= Len(s) /\ SubSeq(s, 1, Len(p)) = p

\* p in s
contains(s, p) == \E j \in 0..(Len(s) - Len(p)) : SubSeq(s, j + 1, j + Len(p)) = p

\* s.replace(old, new), old non-empty: left to right, non-overlapping
RECURSIVE replace(_, _, _)
replace(s, old, new) ==
    IF s = <<>> THEN <<>>
    ELSE IF startswith(s, old)
         THEN new \o replace(SubSeq(s, Len(old) + 1, Len(s)), old, new)
         ELSE <<s[1]>> \o replace(Tail(s), old, new)

\* "\n".join(ls)
RECURSIVE join(_, _)
join(sep, ls) ==
    IF ls = <<>> THEN <<>>
    ELSE IF Len(ls) = 1 THEN ls[1]
         ELSE ls[1] \o sep \o join(sep, Tail(ls))

\* s.split(sep), sep non-empty
RECURSIVE split_from(_, _, _)
split_from(s, sep, acc) ==
    IF s = <<>> THEN <<acc>>
    ELSE IF startswith(s, sep)
         THEN <<acc>> \o split_from(SubSeq(s, Len(sep) + 1, Len(s)), sep, <<>>)
         ELSE split_from(Tail(s), sep, Append(acc, s[1]))

split(s, sep) == split_from(s, sep, <<>>)

\* ------------------------------------------------------------ mode_from_tags
normalize_tag(tag) ==
    LET u == upper(tag)
        r1 == replace(u, <<OTILDE>>, <<APOS>>)
        r2 == replace(r1, <<RQUOTE>>, <<APOS>>)
        r3 == replace(r2, <<BACKTICK>>, <<APOS>>)
        t == strip(r3)
        contOD == Chars("CONT") \o <<OTILDE>> \o <<"D">>
        contRD == Chars("CONT") \o <<RQUOTE>> \o <<"D">>
        contD == Chars("CONT") \o <<APOS>> \o <<"D">>
    IN  replace(replace(t, contOD, contD), contRD, contD)

\* a variant of mode_from_tags that differs from the code: the off-screen test comes first
mode_from_tags_os_first(t1, t2) ==
    LET tags == [j \in 1..Len(SelectSeq(<<t1, t2>>, LAMBDA t : t # None)) |->
                    normalize_tag(SelectSeq(<<t1, t2>>, LAMBDA t : t # None)[j])]
    IN  IF \E j \in 1..Len(tags) :
              contains(tags[j], Chars("O.S")) \/ Chars("OS") = tags[j]
        THEN "OS"
        ELSE IF \E j \in 1..Len(tags) :
                   contains(tags[j], Chars("V.O")) \/ Chars("VO") = tags[j]
             THEN "VO"
             ELSE "None"

mode_from_tags(t1, t2) ==
    LET given == SelectSeq(<<t1, t2>>, LAMBDA t : t # None)
        tags == [j \in 1..Len(given) |-> normalize_tag(given[j])]
    IN  IF \E j \in 1..Len(tags) :
              contains(tags[j], Chars("V.O")) \/ Chars("VO") = tags[j]
        THEN "VO"
        ELSE IF \E j \in 1..Len(tags) :
                   contains(tags[j], Chars("O.S")) \/ Chars("OS") = tags[j]
             THEN "OS"
             ELSE "None"

\* ------------------------------------------------------------ SPEAKER_RE
NameChars == AsciiUpper \cup Digits \cup {APOS, " ", ".", "-"}
SpeakerMinRepeat == 1
SpeakerMaxRepeat == 40

\* a variant of speaker_span that differs from the code: any name character may come first
speaker_span_any_first(s) ==
    IF s = <<>> \/ s[1] \notin NameChars THEN 0
    ELSE CHOOSE k \in 1..Min(Len(s), 1 + SpeakerMaxRepeat) :
            /\ \A j \in 2..k : s[j] \in NameChars
            /\ (k = Min(Len(s), 1 + SpeakerMaxRepeat) \/ s[k + 1] \notin NameChars)

\* [A-Z][A-Z0-9' .-]{1,40}, greedy: the longest prefix the class allows
\* (0: the first character is no capital letter)
speaker_span(s) ==
    IF s = <<>> \/ s[1] \notin AsciiUpper THEN 0
    ELSE CHOOSE k \in 1..Min(Len(s), 1 + SpeakerMaxRepeat) :
            /\ \A j \in 2..k : s[j] \in NameChars
            /\ (k = Min(Len(s), 1 + SpeakerMaxRepeat) \/ s[k + 1] \notin NameChars)

\* \s* from position p: the first position that holds no whitespace
skip_space(s, p) ==
    IF \A j \in p..Len(s) : s[j] \in WhiteSpace THEN Len(s) + 1
    ELSE CHOOSE q \in p..Len(s) :
            s[q] \notin WhiteSpace /\ \A j \in p..(q - 1) : s[j] \in WhiteSpace

\* (?:\s*\(([^)]+)\))? tried at position p: <<position after it, its group>>,
\* or <<0, None>> when it does not match there
paren_group(s, p) ==
    LET q == skip_space(s, p)
    IN  IF q > Len(s) \/ s[q] # "(" THEN <<0, None>>
        ELSE IF \A j \in (q + 1)..Len(s) : s[j] # ")" THEN <<0, None>>
        ELSE LET c == CHOOSE j \in (q + 1)..Len(s) :
                         s[j] = ")" /\ \A m \in (q + 1)..(j - 1) : s[m] # ")"
             IN  IF c = q + 1 THEN <<0, None>>
                 ELSE <<c + 1, SubSeq(s, q + 1, c - 1)>>

\* \s*$ at position p
end_ok(s, p) == \A j \in p..Len(s) : s[j] \in WhiteSpace

\* the two optional groups and the end, from position p, in the regex engine's
\* order of preference: <<TRUE, tag1, tag2>> or <<FALSE, None, None>>
tail_match(s, p) ==
    LET g1 == paren_group(s, p)
        g12 == IF g1[1] = 0 THEN <<0, None>> ELSE paren_group(s, g1[1])
    IN  IF g1[1] # 0 /\ g12[1] # 0 /\ end_ok(s, g12[1]) THEN <<TRUE, g1[2], g12[2]>>
        ELSE IF g1[1] # 0 /\ end_ok(s, g1[1]) THEN <<TRUE, g1[2], None>>
        ELSE IF end_ok(s, p) THEN <<TRUE, None, None>>
        ELSE <<FALSE, None, None>>

\* SPEAKER_RE.match(s): <<speaker, tag1, tag2>>, or None.  The engine gives the
\* speaker group back character by character, down to two characters, until the
\* rest of the pattern matches.
SPEAKER_RE_match(s) ==
    LET top == speaker_span(s)
        ends == {k \in (1 + SpeakerMinRepeat)..top : tail_match(s, k + 1)[1]}
    IN  IF ends = {} THEN None
        ELSE LET k == CHOOSE e \in ends : \A f \in ends : f <= e
                 t == tail_match(s, k + 1)
             IN  <<SubSeq(s, 1, k), t[2], t[3]>>

NON_DIALOGUE_HEADERS ==
    { Chars("INT."), Chars("EXT."), Chars("CUT TO:"), Chars("FADE IN:"),
      Chars("FADE OUT:"), Chars("SMASH CUT:"), Chars("DISSOLVE TO:") }

NON_SPEAKERS ==
    { Chars("PANNING FURTHER DOWN UNTIL"), Chars("THE WINDSHIELD AND SEE"),
      Chars("BACK TO SCENE"), Chars("NEW ANGLE"), Chars("FREEZE FRAME ON HIS FACE") }

\* the classifier past its blank and prefix tests: l the stripped line, m the match
header_of_match(l, m) ==
    IF l = <<>> THEN None
    ELSE IF \E prefix \in NON_DIALOGUE_HEADERS : startswith(l, prefix) THEN None
    ELSE IF m = None THEN None
    ELSE IF strip(m[1]) \in NON_SPEAKERS THEN None
    ELSE <<strip(m[1]), mode_from_tags(m[2], m[3])>>

\* <<speaker, mode>>, or None.  (The stripped line and the match are bound as
\* values, once, by the set constructors.)
looks_like_speaker_header(raw) ==
    CHOOSE r \in { header_of_match(l, m) :
                     l \in {strip(raw)}, m \in {SPEAKER_RE_match(strip(raw))} } : TRUE

\* ------------------------------------------------------------ idle components
SegIdle ==
    /\ lines = <<>> /\ i = 0 /\ current_speaker = None /\ current_mode = "None"
    /\ buf = <<>> /\ results = <<>>
    /\ origin = 0 /\ origins = <<>> /\ buffered = {} /\ examined = {}
HdrIdle == line = <<>> /\ header = None
ModeIdle == tag1 = None /\ tag2 = None /\ mode = "None"
MainIdle == dialogue = <<>> /\ debra_dialogue = <<>> /\ requests = <<>>
StatIdle ==
    /\ total_words = 0 /\ swear_buckets = <<>> /\ total_swear_words = 0
    /\ swear_pct = FloatZero
ChunkIdle ==
    text = <<>> /\ max_chars = 0 /\ paras = <<>> /\ chunks = <<>> /\ cbuf = <<>>

\* ------------------------------------------------------------ inputs
\* n copies of character c
Fill(c, n) == [j \in 1..n |-> c]

\* the sequences of at most n members of S
SeqsUpTo(S, n) == UNION {[1..m -> S] : m \in 0..n}

RECURSIVE concat(_)
concat(ss) == IF ss = <<>> THEN <<>> ELSE ss[1] \o concat(Tail(ss))

TagInputs ==
    { None, Chars("V.O."), Chars("v.o."), Chars("VO"), Chars(" vo "), Chars("O.S."),
      Chars("OS"), Chars("o.s"), Chars("CONT'D"), Chars("CONT") \o <<OTILDE, "D">>,
      Chars("VOX"), Chars("furious"), Chars("V.O.S.") }

SuffixPieces ==
    { Chars("(x)"), Chars(" "), Chars("()"), Chars("("), Chars(")"), Chars("x"),
      Chars(" (O.S.)") }

LineInputs ==
    { <<c1>> \o Fill(c2, n) \o sfx :
        c1 \in {"A", "7", APOS, "-", "a"}, c2 \in {"B", " ", "9", "b"},
        n \in 0..MaxNameFill, sfx \in {<<>>, Chars("(x)"), Chars(" (V.O.)")} }
    \cup
    { name \o concat(ps) :
        name \in {Chars("AB"), Chars("A"), Chars("7A")},
        ps \in SeqsUpTo(SuffixPieces, MaxPieces) }
    \cup
    { <<>>, Chars("INT. A"), Chars("EXT. B (x)"), Chars("CUT TO:"), Chars("NEW ANGLE"),
      Chars("NEW ANGLE (V.O.)"), Chars("NEW ANGLES"), Chars("BACK TO SCENE"),
      Chars("  DEB  "), Chars("\tDEBRA (V.O.) (CONT'D)") }

\* ------------------------------------------------------------ mode_from_tags, called
ModeInit ==
    /\ pc = "call"
    /\ tag1 \in TagInputs /\ tag2 \in TagInputs /\ mode = "None"
    /\ SegIdle /\ HdrIdle /\ MainIdle /\ StatIdle /\ ChunkIdle

ModeFromTags ==
    /\ pc = "call"
    /\ mode' = mode_from_tags(tag1, tag2)
    /\ pc' = "done"
    /\ UNCHANGED <<tag1, tag2, segVars, hdrVars, mainVars, statVars, chunkVars>>

ModeNext == ModeFromTags
SpecMode == ModeInit /\ [][ModeNext]_vars

\* ------------------------------------------------------------ looks_like_speaker_header, called
HeaderInit ==
    /\ pc = "call"
    /\ line \in LineInputs /\ header = None
    /\ SegIdle /\ ModeIdle /\ MainIdle /\ StatIdle /\ ChunkIdle

Classify ==
    /\ pc = "call"
    /\ header' = looks_like_speaker_header(line)
    /\ pc' = "done"
    /\ UNCHANGED <<line, segVars, modeVars, mainVars, statVars, chunkVars>>

HeaderNext == Classify
SpecHeader == HeaderInit /\ [][HeaderNext]_vars

\* ------------------------------------------------------------ claims: the Mode Resolver
IsVoiceOver(t) == contains(t, Chars("V.O")) \/ t = Chars("VO")
IsOffScreen(t) == contains(t, Chars("O.S")) \/ t = Chars("OS")
NormalizedTokens(a, b) == {normalize_tag(t) : t \in {a, b} \ {None}}

\* C5: mode_from_tags gives VO when any normalized token contains "V.O" or is
\* "VO" (also when another token says off-screen), otherwise OS when any
\* contains "O.S" or is "OS", otherwise none; and swapping tag1 and tag2 gives
\* the same result.
C5_ModePriorityAndSymmetry ==
    pc = "done" =>
        /\ mode = IF \E t \in NormalizedTokens(tag1, tag2) : IsVoiceOver(t) THEN "VO"
                  ELSE IF \E t \in NormalizedTokens(tag1, tag2) : IsOffScreen(t) THEN "OS"
                  ELSE "None"
        /\ mode = mode_from_tags(tag2, tag1)

\* An off-screen token first, a voice-over token second, resolved to VO.
C5_Witness ==
    /\ pc = "done"
    /\ tag1 # None /\ tag2 # None
    /\ IsOffScreen(normalize_tag(tag1)) /\ ~IsVoiceOver(normalize_tag(tag1))
    /\ IsVoiceOver(normalize_tag(tag2)) /\ ~IsOffScreen(normalize_tag(tag2))
    /\ mode = "VO"

\* ------------------------------------------------------------ claims: the Line Classifier
\* the line is l[a..b] = optional whitespace, "(", content, ")"; the content
\* holds no ")" and, when strict, at least one character; when not strict it
\* holds no "(" either and may be empty
IsGroup(l, a, b, strict) ==
    /\ a <= b /\ l[b] = ")"
    /\ \E q \in a..(b - 1) :
        /\ l[q] = "("
        /\ \A j \in a..(q - 1) : l[j] \in WhiteSpace
        /\ \A j \in (q + 1)..(b - 1) : l[j] # ")" /\ (strict \/ l[j] # "(")
        /\ (strict => b > q + 1)

\* l[k+1..] is at most two groups and then only whitespace
GroupsThenSpace(l, k, strict) ==
    \E e1 \in k..Len(l) :
        /\ (e1 = k \/ IsGroup(l, k + 1, e1, strict))
        /\ \E e2 \in e1..Len(l) :
            /\ (e2 = e1 \/ IsGroup(l, e1 + 1, e2, strict))
            /\ \A j \in (e2 + 1)..Len(l) : l[j] \in WhiteSpace

\* the shape C4 states: a token of 2 to 41 name characters, at most two
\* parenthetical groups holding no parenthesis, optional whitespace
StatedShape(l) ==
    \E k \in 2..Min(41, Len(l)) :
        /\ \A j \in 1..k : l[j] \in NameChars
        /\ GroupsThenSpace(l, k, FALSE)

\* the shape the code accepts: the token starts with a capital letter, and each
\* group holds at least one character, none of them ")"
AcceptedShape(l) ==
    \E k \in 2..Min(41, Len(l)) :
        /\ l[1] \in AsciiUpper
        /\ \A j \in 2..k : l[j] \in NameChars
        /\ GroupsThenSpace(l, k, TRUE)

\* the name a line leads with: its longest prefix of name characters, at most 41, trimmed
LeadingName(l) ==
    strip(SubSeq(l, 1, CHOOSE k \in 0..Min(41, Len(l)) :
                          /\ \A j \in 1..k : l[j] \in NameChars
                          /\ (k = Min(41, Len(l)) \/ l[k + 1] \notin NameChars)))

\* C4's lines: not blank, no scene or transition prefix, name not on the denylist
Classifiable(l) ==
    /\ l # <<>>
    /\ ~\E prefix \in NON_DIALOGUE_HEADERS : startswith(l, prefix)
    /\ LeadingName(l) \notin NON_SPEAKERS

\* C4 as stated: for a non-blank line with no excluded prefix and no denylisted
\* name, looks_like_speaker_header matches if and only if the line is a token of
\* 2 to 41 characters among capitals, digits, apostrophe, space, period and
\* hyphen, then at most two parenthetical groups holding no parenthesis
\* character, then only whitespace.
C4_AsStated ==
    (pc = "done" /\ Classifiable(strip(line))) =>
        (header # None <=> StatedShape(strip(line)))

\* C4 as amended: the same, where the token starts with a capital letter and
\* each parenthetical group holds at least one character and no ")" (it may
\* hold "(").
C4_HeaderShape ==
    (pc = "done" /\ Classifiable(strip(line))) =>
        (header # None <=> AcceptedShape(strip(line)))

\* A matched header whose name has the greatest length, 41, with a group after it.
C4_Witness ==
    /\ pc = "done" /\ Classifiable(strip(line))
    /\ header # None /\ Len(header[1]) = 41 /\ Len(strip(line)) > 41

\* ------------------------------------------------------------ extract_dialogue_blocks
\* a variant of flush_results that differs from the code: a record for every open block, whatever it holds
flush_results_unguarded(speaker, md, b, res) ==
    IF speaker # None
    THEN Append(res, IF md # "None"
                     THEN [speaker |-> speaker, text |-> strip(join(<<"\n">>, b)), mode |-> md]
                     ELSE [speaker |-> speaker, text |-> strip(join(<<"\n">>, b))])
    ELSE res

\* flush(): results after it (it also resets current_speaker, current_mode, buf)
flush_results(speaker, md, b, res) ==
    IF speaker # None /\ b # <<>>
    THEN LET spoken == strip(join(<<"\n">>, b))
         IN  IF spoken # <<>>
             THEN Append(res, IF md # "None"
                              THEN [speaker |-> speaker, text |-> spoken, mode |-> md]
                              ELSE [speaker |-> speaker, text |-> spoken])
             ELSE res
    ELSE res

\* whether flush() appends a record
flush_emits(speaker, md, b, res) == flush_results(speaker, md, b, res) # res

\* re.fullmatch(r"\([^)]*\)", s)
lone_parenthetical(s) ==
    /\ Len(s) >= 2 /\ s[1] = "(" /\ s[Len(s)] = ")"
    /\ \A j \in 2..(Len(s) - 1) : s[j] # ")"

\* a variant of after_header that differs from the code: every parenthetical line that follows is skipped
RECURSIVE after_header_skip_all(_, _)
after_header_skip_all(ls, j) ==
    IF j < Len(ls) /\ lone_parenthetical(strip(ls[j + 1]))
    THEN after_header_skip_all(ls, j + 1)
    ELSE j

\* i after a header line, j being i once the header is counted: the look-ahead
\* skips one parenthetical line
after_header(ls, j) ==
    IF j < Len(ls) /\ lone_parenthetical(strip(ls[j + 1])) THEN j + 1 ELSE j

\* a variant of collect that differs from the code: the line is trimmed on both sides
collect_trimmed(b, l) == Append(b, strip(l))

\* buf.append(line)
collect(b, l) == Append(b, l)

\* the line the loop looks at: lines[i].rstrip()
current_line == rstrip(lines[i + 1])

SegLineInputs ==
    { Chars("AB"), Chars("DEB (V.O.)"), <<>>, Chars(" "), Chars("(x)"), Chars("hi"),
      Chars(" yo"), Chars("INT. A") }

SegInit ==
    /\ pc = "loop"
    /\ lines \in SeqsUpTo(SegLineInputs, MaxLines)
    /\ i = 0 /\ current_speaker = None /\ current_mode = "None"
    /\ buf = <<>> /\ results = <<>>
    /\ origin = 0 /\ origins = <<>> /\ buffered = {} /\ examined = {}
    /\ HdrIdle /\ ModeIdle /\ MainIdle /\ StatIdle /\ ChunkIdle

\* a header line: flush the open block, open the next, skip a parenthetical line
HeaderLine ==
    /\ pc = "loop" /\ i < Len(lines)
    /\ \E hdr \in {looks_like_speaker_header(current_line)} :
        /\ hdr # None
        /\ current_speaker' = hdr[1]
        /\ current_mode' = hdr[2]
    /\ results' = flush_results(current_speaker, current_mode, buf, results)
    /\ origins' = IF flush_emits(current_speaker, current_mode, buf, results)
                  THEN Append(origins, origin) ELSE origins
    /\ buf' = <<>>
    /\ origin' = i + 1
    /\ examined' = examined \cup {i + 1}
    /\ i' = after_header(lines, i + 1)
    /\ UNCHANGED <<pc, lines, buffered, hdrVars, modeVars, mainVars, statVars, chunkVars>>

\* inside a block, a blank line: flush
BlankLine ==
    /\ pc = "loop" /\ i < Len(lines)
    /\ looks_like_speaker_header(current_line) = None
    /\ current_speaker # None
    /\ strip(current_line) = <<>>
    /\ results' = flush_results(current_speaker, current_mode, buf, results)
    /\ origins' = IF flush_emits(current_speaker, current_mode, buf, results)
                  THEN Append(origins, origin) ELSE origins
    /\ current_speaker' = None /\ current_mode' = "None" /\ buf' = <<>>
    /\ origin' = 0
    /\ examined' = examined \cup {i + 1}
    /\ i' = i + 1
    /\ UNCHANGED <<pc, lines, buffered, hdrVars, modeVars, mainVars, statVars, chunkVars>>

\* inside a block, any other line: collect it
DialogueLine ==
    /\ pc = "loop" /\ i < Len(lines)
    /\ looks_like_speaker_header(current_line) = None
    /\ current_speaker # None
    /\ strip(current_line) # <<>>
    /\ buf' = collect(buf, current_line)
    /\ buffered' = buffered \cup {i + 1}
    /\ examined' = examined \cup {i + 1}
    /\ i' = i + 1
    /\ UNCHANGED <<pc, lines, current_speaker, current_mode, results, origin, origins,
                   hdrVars, modeVars, mainVars, statVars, chunkVars>>

\* outside any block, a line that is no header: dropped
IgnoredLine ==
    /\ pc = "loop" /\ i < Len(lines)
    /\ looks_like_speaker_header(current_line) = None
    /\ current_speaker = None
    /\ examined' = examined \cup {i + 1}
    /\ i' = i + 1
    /\ UNCHANGED <<pc, lines, current_speaker, current_mode, buf, results, origin,
                   origins, buffered, hdrVars, modeVars, mainVars, statVars, chunkVars>>

\* the end of the input: the last flush, and the return
EndOfInput ==
    /\ pc = "loop" /\ i >= Len(lines)
    /\ results' = flush_results(current_speaker, current_mode, buf, results)
    /\ origins' = IF flush_emits(current_speaker, current_mode, buf, results)
                  THEN Append(origins, origin) ELSE origins
    /\ current_speaker' = None /\ current_mode' = "None" /\ buf' = <<>>
    /\ origin' = 0
    /\ pc' = "done"
    /\ UNCHANGED <<lines, i, buffered, examined, hdrVars, modeVars, mainVars, statVars,
                   chunkVars>>

SegNext == HeaderLine \/ BlankLine \/ DialogueLine \/ IgnoredLine \/ EndOfInput
SpecSegment == SegInit /\ [][SegNext]_vars

\* ------------------------------------------------------------ claims: the Block Segmenter
\* what line j (1-based) of the input is
IsHeaderLine(j) == looks_like_speaker_header(rstrip(lines[j])) # None
IsBlankLine(j) == strip(lines[j]) = <<>>
IsParenLine(j) == lone_parenthetical(strip(lines[j]))
HeaderLines == {j \in 1..Len(lines) : IsHeaderLine(j)}

\* C1: every emitted block has a text that is not empty after trimming; and a
\* header line directly followed by another header, by a blank line or by the
\* end of the input emits no block for that header.
C1_NoEmptyBlock ==
    /\ \A k \in 1..Len(results) : strip(results[k].text) # <<>>
    /\ \A k \in 1..Len(origins) :
        /\ origins[k] < Len(lines)
        /\ ~IsHeaderLine(origins[k] + 1)
        /\ ~IsBlankLine(origins[k] + 1)

\* The run is over and it met a header directly followed by a header, one
\* followed by a blank line and one that ends the input.
C1_Witness ==
    /\ pc = "done"
    /\ \E h \in HeaderLines : h < Len(lines) /\ IsHeaderLine(h + 1)
    /\ \E h \in HeaderLines : h < Len(lines) /\ IsBlankLine(h + 1)
    /\ Len(lines) \in HeaderLines

\* the first line after position `first` that ends a block: a blank line, a
\* header line, or the position after the last line
BlockEnd(first) ==
    CHOOSE e \in first..(Len(lines) + 1) :
        /\ e = Len(lines) + 1 \/ IsBlankLine(e) \/ IsHeaderLine(e)
        /\ \A j \in first..(e - 1) : ~IsBlankLine(j) /\ ~IsHeaderLine(j)

\* the text of the lines first..BlockEnd(first)-1, joined and trimmed
BlockText(first) ==
    strip(join(<<"\n">>, [j \in 1..(BlockEnd(first) - first) |->
                            rstrip(lines[first + j - 1])]))

\* the first line of header h's dialogue: as C2 states it, the line after h;
\* in the code, the line after a parenthetical line that directly follows h
FirstLine(h, skipping) ==
    IF skipping /\ h < Len(lines) /\ IsParenLine(h + 1) THEN h + 2 ELSE h + 1

BlockOf(h, skipping) ==
    LET hdr == looks_like_speaker_header(rstrip(lines[h]))
        spoken == BlockText(FirstLine(h, skipping))
    IN  IF hdr[2] # "None"
        THEN [speaker |-> hdr[1], text |-> spoken, mode |-> hdr[2]]
        ELSE [speaker |-> hdr[1], text |-> spoken]

\* the blocks of the headers at lines j.., in input order, those with no text left out
RECURSIVE BlocksFrom(_, _)
BlocksFrom(j, skipping) ==
    IF j > Len(lines) THEN <<>>
    ELSE IF IsHeaderLine(j) /\ BlockText(FirstLine(j, skipping)) # <<>>
         THEN <<BlockOf(j, skipping)>> \o BlocksFrom(j + 1, skipping)
         ELSE BlocksFrom(j + 1, skipping)

\* C2 as stated: the blocks are, in input order, one per header line, with the
\* header's speaker and mode and, as text, the trimmed line-break join of the
\* non-blank, non-header lines that follow the header up to the first blank
\* line, next header or end of input; no other line is in any block.
C2_AsStated == pc = "done" => results = BlocksFrom(1, FALSE)

\* C2 as amended: the same, the lines of a block starting after a lone
\* parenthetical line that directly follows the header.
C2_StateMachine == pc = "done" => results = BlocksFrom(1, TRUE)

\* A parenthetical line was skipped, a block came out, and a line outside any
\* block was dropped.
C2_Witness ==
    /\ pc = "done" /\ Len(results) = 1
    /\ \E j \in 1..Len(lines) : j \notin examined
    /\ \E j \in 1..Len(lines) :
        /\ j \notin buffered /\ j \in examined
        /\ ~IsHeaderLine(j) /\ ~IsBlankLine(j)

\* line j is inside a block: a header line comes before it, with no blank and
\* no header line in between
InsideBlock(j) ==
    \E h \in HeaderLines :
        h < j /\ \A m \in (h + 1)..(j - 1) : ~IsHeaderLine(m) /\ ~IsBlankLine(m)

\* C3: a parenthetical line directly after a header line is consumed: the loop
\* never reads it (so it is no header and no boundary) and it enters no buffer;
\* only such lines are skipped, one per header; a parenthetical line later in
\* a block is buffered.
C3_ParentheticalSkip ==
    \A j \in 1..i :
        /\ (j > 1 /\ (j - 1) \in examined /\ IsHeaderLine(j - 1) /\ IsParenLine(j))
              => (j \notin examined /\ j \notin buffered)
        /\ j \notin examined =>
              (j > 1 /\ (j - 1) \in examined /\ IsHeaderLine(j - 1) /\ IsParenLine(j))
        /\ (IsParenLine(j) /\ j \in examined /\ InsideBlock(j)) => j \in buffered

\* A header, a parenthetical line that was skipped, a second one that was buffered.
C3_Witness ==
    \E j \in 2..(i - 1) :
        /\ IsHeaderLine(j - 1) /\ IsParenLine(j) /\ IsParenLine(j + 1)
        /\ j \notin examined /\ (j + 1) \in buffered

\* ------------------------------------------------------------ is_debra and the filter of main
DEBRA_ALIASES == {Chars("DEBRA"), Chars("DEB"), Chars("DEBRA MORGAN")}

\* a variant of is_debra that differs from the code: the prefix tested is DEB
is_debra_prefix_deb(speaker) ==
    \E s \in {strip(upper(speaker))} :
        s \in DEBRA_ALIASES \/ startswith(s, Chars("DEB"))

is_debra(speaker) ==
    \E s \in {strip(upper(speaker))} :
        s \in DEBRA_ALIASES \/ startswith(s, Chars("DEBRA"))

\* speakers: names a header line can give, and other strings is_debra may be given
SpeakerInputs ==
    { Chars("DEB"), Chars("DEBRA"), Chars("DEBRA MORGAN"), Chars("DEBORAH"),
      Chars("DEBRA JR"), Chars("DEXTER"), Chars("DEBR"), Chars("MS DEBRA"),
      Chars("deb"), Chars(" Debra Morgan ") }

FilterInit ==
    /\ pc = "filter"
    /\ dialogue \in SeqsUpTo([speaker : SpeakerInputs, text : {Chars("hi"), Chars("yo")}],
                             MaxBlocks)
    /\ debra_dialogue = <<>> /\ requests = <<>>
    /\ SegIdle /\ HdrIdle /\ ModeIdle /\ StatIdle /\ ChunkIdle

\* debra_dialogue = [d for d in dialogue if is_debra(d.get("speaker", ""))]
FilterDebra ==
    /\ pc = "filter"
    /\ debra_dialogue' = SelectSeq(dialogue, LAMBDA d : is_debra(d.speaker))
    /\ pc' = "done"
    /\ UNCHANGED <<dialogue, requests, segVars, hdrVars, modeVars, statVars, chunkVars>>

FilterNext == FilterDebra
SpecFilter == FilterInit /\ [][FilterNext]_vars

\* ------------------------------------------------------------ claims: the Speaker Filter
\* the speaker, uppercased and trimmed, is an alias or starts with the five
\* letters D, E, B, R, A
Accepted(speaker) ==
    LET s == strip(upper(speaker))
    IN  \/ s = Chars("DEBRA") \/ s = Chars("DEB") \/ s = Chars("DEBRA MORGAN")
        \/ /\ Len(s) >= 5
           /\ s[1] = "D" /\ s[2] = "E" /\ s[3] = "B" /\ s[4] = "R" /\ s[5] = "A"

\* sub is the subsequence of full at the increasing positions at
IsSubsequenceAt(sub, full, at) ==
    /\ Len(at) = Len(sub)
    /\ \A k \in 1..Len(at) : at[k] \in 1..Len(full) /\ sub[k] = full[at[k]]
    /\ \A k \in 1..(Len(at) - 1) : at[k] < at[k + 1]

\* C6: a block is kept if and only if its speaker, uppercased and trimmed, is
\* DEBRA, DEB or DEBRA MORGAN or starts with DEBRA; DEB and DEBRA MORGAN are
\* kept, DEBORAH is not; the kept blocks are, in order, the accepted blocks.
C6_SpeakerFilter ==
    pc = "done" =>
        /\ \E at \in SeqsUpTo(1..Len(dialogue), Len(dialogue)) :
            /\ IsSubsequenceAt(debra_dialogue, dialogue, at)
            /\ \A k \in 1..Len(dialogue) :
                  (\E n \in 1..Len(at) : at[n] = k) <=> Accepted(dialogue[k].speaker)
        /\ \A k \in 1..Len(dialogue) :
            /\ dialogue[k].speaker \in {Chars("DEB"), Chars("DEBRA MORGAN")}
                  => \E n \in 1..Len(debra_dialogue) : debra_dialogue[n] = dialogue[k]
            /\ dialogue[k].speaker = Chars("DEBORAH")
                  => \A n \in 1..Len(debra_dialogue) :
                        debra_dialogue[n].speaker # Chars("DEBORAH")

\* DEBORAH was dropped and a block after it was kept.
C6_Witness ==
    /\ pc = "done" /\ Len(dialogue) = 2 /\ Len(debra_dialogue) = 1
    /\ dialogue[1].speaker = Chars("DEBORAH")
    /\ dialogue[2].speaker = Chars("DEB")

\* ------------------------------------------------------------ float (binary64)
\* A natural number is its bits, least significant first, the last one 1 (zero
\* is <<>>).  A positive float is mant * 2^exp, mant of MantissaBits bits;
\* 0.0 is FloatZero.
MantissaBits == 53

RECURSIVE nat_bits(_)
nat_bits(n) == IF n = 0 THEN <<>> ELSE <<n % 2>> \o nat_bits(n \div 2)

Zeros(n) == [j \in 1..n |-> 0]

RECURSIVE trim(_)
trim(bits) ==
    IF bits = <<>> THEN <<>>
    ELSE IF bits[Len(bits)] = 1 THEN bits
         ELSE trim(SubSeq(bits, 1, Len(bits) - 1))

RECURSIVE inc_bits(_)
inc_bits(bits) ==
    IF bits = <<>> THEN <<1>>
    ELSE IF bits[1] = 0 THEN <<1>> \o Tail(bits)
         ELSE <<0>> \o inc_bits(Tail(bits))

\* bits * n + carry
RECURSIVE mul_small(_, _, _)
mul_small(bits, n, carry) ==
    IF bits = <<>> THEN nat_bits(carry)
    ELSE <<(bits[1] * n + carry) % 2>>
            \o mul_small(Tail(bits), n, (bits[1] * n + carry) \div 2)

shift_left(bits, k) == IF bits = <<>> THEN <<>> ELSE Zeros(k) \o bits

\* a - b for a >= b, borrow being 0 or 1 (untrimmed)
RECURSIVE sub_bits(_, _, _)
sub_bits(a, b, borrow) ==
    IF a = <<>> THEN <<>>
    ELSE LET bj == IF b = <<>> THEN 0 ELSE b[1]
             d == a[1] - bj - borrow
         IN  <<d % 2>> \o sub_bits(Tail(a), IF b = <<>> THEN <<>> ELSE Tail(b),
                                   IF d < 0 THEN 1 ELSE 0)

\* a <= b
bits_leq(a, b) ==
    \/ Len(a) < Len(b)
    \/ /\ Len(a) = Len(b)
       /\ \/ a = b
          \/ LET top == CHOOSE j \in 1..Len(a) :
                            a[j] # b[j] /\ \A m \in (j + 1)..Len(a) : a[m] = b[m]
             IN  a[top] < b[top]

\* |a - b|
bits_distance(a, b) == IF bits_leq(b, a) THEN trim(sub_bits(a, b, 0)) ELSE trim(sub_bits(b, a, 0))

\* the float nearest p * 2^e, ties to even (p a non-zero natural number)
round_bits(p, e) ==
    IF Len(p) <= MantissaBits
    THEN [mant |-> Zeros(MantissaBits - Len(p)) \o p, exp |-> e - (MantissaBits - Len(p))]
    ELSE LET d == Len(p) - MantissaBits
             kept == SubSeq(p, d + 1, Len(p))
             up == p[d] = 1 /\ (kept[1] = 1 \/ \E j \in 1..(d - 1) : p[j] = 1)
             m == IF up THEN inc_bits(kept) ELSE kept
         IN  IF Len(m) > MantissaBits
             THEN [mant |-> Tail(m), exp |-> e + d + 1]
             ELSE [mant |-> m, exp |-> e + d]

\* n more bits of r / d (r < d), most significant first, and whether any remainder is left
RECURSIVE div_bits(_, _, _)
div_bits(r, d, n) ==
    IF n = 0 THEN <<IF r > 0 THEN 1 ELSE 0>>
    ELSE IF 2 * r >= d THEN <<1>> \o div_bits(2 * r - d, d, n - 1)
         ELSE <<0>> \o div_bits(2 * r, d, n - 1)

\* <<n, d, t>> with a / b = (n / d) * 2^t and 1 <= n / d < 2
RECURSIVE scale_quotient(_, _, _)
scale_quotient(a, b, t) ==
    IF a < b THEN scale_quotient(2 * a, b, t - 1)
    ELSE IF a >= 2 * b THEN scale_quotient(a, 2 * b, t + 1)
         ELSE <<a, b, t>>

Reverse(s) == [j \in 1..Len(s) |-> s[Len(s) + 1 - j]]

\* a / b of two ints, a >= 0 < b: the float nearest the quotient.  The leading
\* bit, MantissaBits more, and a last bit for what is left.
int_truediv(a, b) ==
    IF a = 0 THEN FloatZero
    ELSE LET q == scale_quotient(a, b, 0)
             bitsMSB == <<1>> \o div_bits(q[1] - q[2], q[2], MantissaBits)
         IN  round_bits(Reverse(bitsMSB), q[3] - MantissaBits - 1)

\* x * n, x a float, n an int > 0 that a float holds exactly
float_mul(x, n) ==
    IF x = FloatZero THEN FloatZero ELSE round_bits(mul_small(x.mant, n, 0), x.exp)

\* ------------------------------------------------------------ debra_stats
TokenChars == AsciiLower \cup {APOS}

\* re.findall(r"[a-z']+", s): the maximal runs of token characters, cur being the open run
RECURSIVE findall_tokens(_, _)
findall_tokens(s, cur) ==
    IF s = <<>> THEN (IF cur = <<>> THEN <<>> ELSE <<cur>>)
    ELSE IF s[1] \in TokenChars THEN findall_tokens(Tail(s), Append(cur, s[1]))
         ELSE (IF cur = <<>> THEN <<>> ELSE <<cur>>) \o findall_tokens(Tail(s), <<>>)

\* the text debra_stats tokenizes
stats_text(dd) ==
    LET joined == lower(join(<<"\n">>, [k \in 1..Len(dd) |-> dd[k].text]))
        r1 == replace(joined, <<RQUOTE>>, <<APOS>>)
        r2 == replace(r1, <<BACKTICK>>, <<APOS>>)
    IN  replace(r2, <<OTILDE>>, <<APOS>>)

stats_tokens(dd) == findall_tokens(stats_text(dd), <<>>)

\* [len(words), words], as <<count, words>>
bucket_contains(tokens, substr) ==
    <<Len(SelectSeq(tokens, LAMBDA t : contains(t, substr))),
      SelectSeq(tokens, LAMBDA t : contains(t, substr))>>

\* a variant of bucket_exact that differs from the code: the word is looked for inside the token
bucket_exact_as_contains(tokens, word) == bucket_contains(tokens, word)

bucket_exact(tokens, word) ==
    <<Len(SelectSeq(tokens, LAMBDA t : t = word)), SelectSeq(tokens, LAMBDA t : t = word)>>

\* the dict literal, in insertion order: <<key, value>> pairs
all_buckets(tokens) ==
    << <<"FUCK*", bucket_contains(tokens, Chars("fuck"))>>,
       <<"SHIT*", bucket_contains(tokens, Chars("shit"))>>,
       <<"BITCH*", bucket_contains(tokens, Chars("bitch"))>>,
       <<"DICK*", bucket_contains(tokens, Chars("dick"))>>,
       <<"HELL", bucket_exact(tokens, Chars("hell"))>>,
       <<"DAMN", bucket_exact(tokens, Chars("damn"))>> >>

\* a variant of drop_empty that differs from the code: every bucket is kept
drop_empty_keeps_all(buckets) == buckets

\* {k: v for k, v in swear_buckets.items() if v[0] > 0}
drop_empty(buckets) == SelectSeq(buckets, LAMBDA kv : kv[2][1] > 0)

\* sum(v[0] for v in swear_buckets.values())
RECURSIVE sum_counts(_)
sum_counts(buckets) ==
    IF buckets = <<>> THEN 0 ELSE buckets[1][2][1] + sum_counts(Tail(buckets))

PercentFactor == 100

\* a variant of percent that differs from the code: the fraction, not the percentage
percent_as_fraction(swears, words) ==
    IF words # 0 THEN int_truediv(swears, words) ELSE FloatZero

\* (total_swear_words / total_words * 100) if total_words else 0.0
percent(swears, words) ==
    IF words # 0 THEN float_mul(int_truediv(swears, words), PercentFactor) ELSE FloatZero

\* args.input
SourceFile == "pilot.pdf"

TextInputs ==
    { Chars("Fuck!"), Chars("fuckshit"), Chars("hell"), Chars("shell"), Chars("a b"),
      Chars("..."), Chars("dick") \o <<RQUOTE>> \o Chars("s"), Chars("Damn bitch"),
      Chars("oh what the Hell, Dex") }

\* main after the filter: the blocks of the target speaker
StatsInit ==
    /\ pc = "stats"
    /\ debra_dialogue \in SeqsUpTo([speaker : {Chars("DEBRA")}, text : TextInputs], MaxBlocks)
    /\ dialogue = debra_dialogue /\ requests = <<>>
    /\ StatIdle
    /\ SegIdle /\ HdrIdle /\ ModeIdle /\ ChunkIdle

\* total_words, swear_buckets, total_swear_words, swear_pct = debra_stats(debra_dialogue)
DebraStats ==
    /\ pc = "stats"
    /\ \E tokens \in {stats_tokens(debra_dialogue)} :
       \E kept \in {drop_empty(all_buckets(tokens))} :
        /\ total_words' = Len(tokens)
        /\ swear_buckets' = kept
        /\ total_swear_words' = sum_counts(kept)
        /\ swear_pct' = percent(sum_counts(kept), Len(tokens))
    /\ pc' = "persist"
    /\ UNCHANGED <<mainVars, segVars, hdrVars, modeVars, chunkVars>>

\* one turn of the loop over swear_buckets.items(): insert_debra_swear_bucket(...)
InsertBucket ==
    /\ pc = "persist" /\ Len(requests) < Len(swear_buckets)
    /\ \E kv \in {swear_buckets[Len(requests) + 1]} :
        requests' = Append(requests, [source_file |-> SourceFile, bucket |-> kv[1],
                                      count |-> kv[2][1], tokens |-> kv[2][2]])
    /\ UNCHANGED <<pc, dialogue, debra_dialogue, statVars, segVars, hdrVars, modeVars,
                   chunkVars>>

\* the loop is over: conn.close()
CloseConn ==
    /\ pc = "persist" /\ Len(requests) = Len(swear_buckets)
    /\ pc' = "done"
    /\ UNCHANGED <<mainVars, statVars, segVars, hdrVars, modeVars, chunkVars>>

StatsNext == DebraStats \/ InsertBucket \/ CloseConn
SpecStats == StatsInit /\ [][StatsNext]_vars

\* ------------------------------------------------------------ claims: the Lexical Analyzer
StatsDone == pc \in {"persist", "done"}

Fragments == {Chars("fuck"), Chars("shit"), Chars("bitch"), Chars("dick")}
ExactWords == {Chars("hell"), Chars("damn")}

\* how many rules of the default bucket set token t matches
RulesMatched(t) ==
    Cardinality({f \in Fragments : contains(t, f)}) + (IF t \in ExactWords THEN 1 ELSE 0)

\* the names of the returned buckets whose token list holds the token at position p
BucketsHolding(tokens, p) ==
    { swear_buckets[k][1] :
        k \in { m \in 1..Len(swear_buckets) :
                  \E n \in 1..Len(swear_buckets[m][2][2]) :
                      swear_buckets[m][2][2][n] = tokens[p] } }

RECURSIVE SumOver(_, _)
SumOver(f, n) == IF n = 0 THEN 0 ELSE f[n] + SumOver(f, n - 1)

\* swear_pct * total_words and 100 * total_swear_words, both in units of 2^swear_pct.exp
PctTimesWords == mul_small(swear_pct.mant, total_words, 0)
HundredSwears == shift_left(nat_bits(100 * total_swear_words), 0 - swear_pct.exp)

C7_Counts ==
    /\ total_swear_words = sum_counts(swear_buckets)
    /\ total_swear_words =
          SumOver([p \in 1..Len(stats_tokens(debra_dialogue)) |->
                      RulesMatched(stats_tokens(debra_dialogue)[p])],
                  Len(stats_tokens(debra_dialogue)))
    /\ \A k \in 1..Len(swear_buckets) : swear_buckets[k][2][1] = Len(swear_buckets[k][2][2])
    /\ total_words = 0 => swear_pct = FloatZero

\* C7 as stated: total_swear_words is the sum of the counts of the kept buckets
\* (a token counted once per rule it matches), each count is the length of its
\* token list, swear_pct is 0.0 when total_words is 0 and otherwise
\* swear_pct * total_words = 100 * total_swear_words.
C7_AsStated ==
    StatsDone =>
        /\ C7_Counts
        /\ total_words # 0 => (swear_pct.exp <= 0 /\ PctTimesWords = HundredSwears)

\* C7 as amended: the same, where swear_pct * total_words is within
\* 2^-51 * 100 * total_swear_words of 100 * total_swear_words.
C7_StatsTotals ==
    StatsDone =>
        /\ C7_Counts
        /\ total_words # 0 =>
              /\ swear_pct.exp <= 0
              /\ bits_leq(shift_left(bits_distance(PctTimesWords, HundredSwears), 51),
                          HundredSwears)

\* One swear word in three words: the percentage is no dyadic number.
C7_Witness == pc = "done" /\ total_words = 3 /\ total_swear_words = 1

\* C8: the returned mapping holds a bucket only if a token matched its rule
\* (its count is positive), and the run issues one request per bucket of the
\* mapping, in its order, and none for a bucket with count 0.
C8_NoZeroBuckets ==
    /\ StatsDone =>
          \A k \in 1..Len(swear_buckets) :
              /\ swear_buckets[k][2][1] > 0
              /\ swear_buckets[k][2][2] # <<>>
              /\ \A n \in 1..Len(swear_buckets) : swear_buckets[n][1] = swear_buckets[k][1] => n = k
    /\ \A k \in 1..Len(requests) :
          /\ k <= Len(swear_buckets)
          /\ requests[k].bucket = swear_buckets[k][1]
          /\ requests[k].count = swear_buckets[k][2][1]
          /\ requests[k].tokens = swear_buckets[k][2][2]
          /\ requests[k].count > 0
    /\ pc = "done" => Len(requests) = Len(swear_buckets)

\* The run is over, with two requests for six rules.
C8_Witness == pc = "done" /\ Len(requests) = 2 /\ total_words > 2

\* C9 as stated: no token occurrence is in the token list of more than one bucket.
C9_AsStated ==
    StatsDone =>
        \A p \in 1..Len(stats_tokens(debra_dialogue)) :
            Cardinality(BucketsHolding(stats_tokens(debra_dialogue), p)) <= 1

\* C9 as amended: a token occurrence is in the token list of one bucket per
\* rule it matches, so in more than one only when it holds more than one of
\* the fragments fuck, shit, bitch, dick.
C9_BucketOverlap ==
    StatsDone =>
        \A p \in 1..Len(stats_tokens(debra_dialogue)) :
            /\ Cardinality(BucketsHolding(stats_tokens(debra_dialogue), p))
                  = RulesMatched(stats_tokens(debra_dialogue)[p])
            /\ Cardinality(BucketsHolding(stats_tokens(debra_dialogue), p)) > 1
                  => Cardinality({f \in Fragments :
                                    contains(stats_tokens(debra_dialogue)[p], f)}) > 1

\* A token in two buckets, and the word shell in none.
C9_Witness ==
    /\ pc = "done"
    /\ \E p \in 1..Len(stats_tokens(debra_dialogue)) :
          Cardinality(BucketsHolding(stats_tokens(debra_dialogue), p)) = 2
    /\ \E p \in 1..Len(stats_tokens(debra_dialogue)) :
          /\ stats_tokens(debra_dialogue)[p] = Chars("shell")
          /\ BucketsHolding(stats_tokens(debra_dialogue), p) = {}

\* ------------------------------------------------------------ chunk_text
ParagraphBreak == <<"\n", "\n">>

ChunkInit ==
    /\ pc = "call"
    /\ text \in SeqsUpTo({"a", " ", "\n"}, MaxTextLen)
    /\ max_chars \in 1..MaxChars
    /\ paras = <<>> /\ chunks = <<>> /\ cbuf = <<>>
    /\ SegIdle /\ HdrIdle /\ ModeIdle /\ MainIdle /\ StatIdle

\* chunks, buf = [], ""; the loop starts over text.split("\n\n")
ChunkStart ==
    /\ pc = "call"
    /\ paras' = split(text, ParagraphBreak)
    /\ chunks' = <<>> /\ cbuf' = <<>>
    /\ pc' = "loop"
    /\ UNCHANGED <<text, max_chars, segVars, hdrVars, modeVars, mainVars, statVars>>

\* a paragraph that does not fit: the buffer becomes a chunk, the paragraph the buffer
ChunkCut ==
    /\ pc = "loop" /\ paras # <<>>
    /\ Len(cbuf) + Len(Head(paras)) > max_chars
    /\ chunks' = Append(chunks, strip(cbuf))
    /\ cbuf' = Head(paras)
    /\ paras' = Tail(paras)
    /\ UNCHANGED <<pc, text, max_chars, segVars, hdrVars, modeVars, mainVars, statVars>>

\* a paragraph that fits: added to the buffer after a paragraph break
ChunkGrow ==
    /\ pc = "loop" /\ paras # <<>>
    /\ ~(Len(cbuf) + Len(Head(paras)) > max_chars)
    /\ cbuf' = cbuf \o ParagraphBreak \o Head(paras)
    /\ paras' = Tail(paras)
    /\ UNCHANGED <<pc, text, max_chars, chunks, segVars, hdrVars, modeVars, mainVars,
                   statVars>>

\* the loop is over: what the buffer holds, if anything, is the last chunk
ChunkReturn ==
    /\ pc = "loop" /\ paras = <<>>
    /\ chunks' = IF strip(cbuf) # <<>> THEN Append(chunks, strip(cbuf)) ELSE chunks
    /\ pc' = "done"
    /\ UNCHANGED <<text, max_chars, paras, cbuf, segVars, hdrVars, modeVars, mainVars,
                   statVars>>

ChunkNext == ChunkStart \/ ChunkCut \/ ChunkGrow \/ ChunkReturn
SpecChunk == ChunkInit /\ [][ChunkNext]_vars

\* ------------------------------------------------------------ claims: chunk_text
\* the paragraphs of s that are not blank, each trimmed
Paragraphs(s) ==
    LET ps == split(s, ParagraphBreak)
        kept == SelectSeq(ps, LAMBDA p : strip(p) # <<>>)
    IN  [k \in 1..Len(kept) |-> strip(kept[k])]

RECURSIVE ParagraphsOfAll(_)
ParagraphsOfAll(cs) ==
    IF cs = <<>> THEN <<>> ELSE Paragraphs(cs[1]) \o ParagraphsOfAll(Tail(cs))

\* every paragraph of the text is in one chunk, in the order of the text
ParagraphsKept == pc = "done" => ParagraphsOfAll(chunks) = Paragraphs(text)

\* C10: chunk_text returns no chunk that is empty or only whitespace, also
\* when the first paragraph alone is longer than max_chars, and every paragraph
\* of the text is in exactly one chunk, in the order of the text.
C10_NoEmptyChunk ==
    /\ \A k \in 1..Len(chunks) : strip(chunks[k]) # <<>>
    /\ ParagraphsKept

====
